---- MODULE Spec2Model ----
(***************************************************************************)
(* A model of Algernon's main function (src/main.go): the startup         *)
(* sequence, the configuration pipeline, the shutdown functions, the Lua  *)
(* state pool shared by the REPL and the request handlers, and the        *)
(* protocol serve brings the server up with.                              *)
(*                                                                         *)
(* main is one sequential function; pc is its position. Flags that main   *)
(* only reads are drawn where they are read. The functions main calls     *)
(* that live in other files of the repository (atShutdown,                *)
(* generateShutdownFunction, fatalExit, the lStatePool methods,           *)
(* runConfiguration, serve, serveStaticFile) are modelled from the        *)
(* specification's contracts (sections 4.1 to 4.4).                       *)
(***************************************************************************)
EXTENDS Integers, Sequences, FiniteSets, TLC

\* Longest list serverConfigurationFilenames grows to: the filenames the flags
\* give and those registered from an extracted archive.
MaxSources == 3
\* Most Lua states the pool constructs.
MaxContexts == 2

VARIABLES
    pc,                            \* main's position
    exitKind,                      \* how the process ended ("running" until then)
    exitCause,                     \* which statement ended it
    tempDir,                       \* serverTempDir on disk: none, present, removed
    files,                         \* the file handles main opens
    deferred,                      \* main's deferred calls, oldest first
    opts,                          \* the options that registered a shutdown function
    shutdownFunctions,             \* the registry atShutdown appends to
    ran,                           \* the shutdown functions invoked so far, in order
    completed,                     \* the shutdown functions have all been called
    serverDir,                     \* what the server directory argument names
    singleFileMode,
    serveJustHTTP,
    perm,                          \* "nil" or "present"
    luaServerFilename,             \* "" or a filename
    serverConfigurationFilenames,
    ranConfigurationFilenames,
    idx,                           \* the range index of the configuration loop
    runs,                          \* the configuration filenames the loop has visited,
                                   \* each with what became of it
    serverScriptRan,               \* the Lua server file ran without error
    registerCount,                 \* calls of registerHandlers
    poolState,                     \* luapool: none, open, closed
    saved,                         \* luapool.saved
    created,                       \* Lua states constructed so far
    held,                          \* the Lua states each consumer has checked out
    finalized,                     \* how often each Lua state was closed
    replRunning,                   \* the REPL goroutine was started
    released,                      \* what has been released so far, in order: the
                                   \* shutdown functions invoked and the deferred
                                   \* calls run
    logTargets,                    \* the files tried for the internal log, in order
    rangeOver,                     \* the slice the configuration loop ranges over
    zipDraw,                       \* what an extracted archive held
    serverScriptFailed,            \* the Lua server file ran and returned an error
    productionMode,                \* conf.productionMode as serve reads it
    serveJustHTTP2,                \* conf.serveJustHTTP2 as serve reads it
    protocol,                      \* serve's protocol state
    trail,                         \* the protocol states entered, in order
    plainListener,                 \* the HTTP listener
    secureListener                 \* the HTTPS listener, likewise

vars == <<pc, exitKind, exitCause, tempDir, files, deferred, opts,
          shutdownFunctions, ran, released, completed, serverDir, singleFileMode,
          serveJustHTTP, perm, luaServerFilename, serverConfigurationFilenames,
          ranConfigurationFilenames, idx, runs, serverScriptRan, registerCount,
          poolState, saved, created, held, finalized, replRunning,
          logTargets, rangeOver, zipDraw, serverScriptFailed, productionMode,
          serveJustHTTP2, protocol, trail, plainListener, secureListener>>

exitVars == <<exitKind, exitCause>>
resVars == <<tempDir, deferred>>
regVars == <<opts, shutdownFunctions>>
shutdownVars == <<ran, released, completed, poolState, finalized, files, saved>>
poolVars == <<created, held>>
modeVars == <<serverDir, singleFileMode, serveJustHTTP, perm, luaServerFilename>>
confVars == <<serverConfigurationFilenames, ranConfigurationFilenames, idx, runs>>
handlerVars == <<serverScriptRan, registerCount, replRunning>>
histVars == <<logTargets, rangeOver, zipDraw, serverScriptFailed>>
protoVars == <<productionMode, serveJustHTTP2, protocol, trail, plainListener,
               secureListener>>

Range(s) == {s[i] : i \in 1..Len(s)}

FileNames == {"cpuProfile", "serverLog", "internalLog", "fallbackLog"}
Consumers == {"main", "repl", "handler1", "handler2"}
Contexts == 1..MaxContexts

\* What the server directory argument may name.
ServerDirs == {"www", "README.md", "app.zip", "page.html", "index.lua", "nofile"}

\* A configuration filename: id tells the filenames the flags gave apart, zip
\* says whether the name was joined to the directory an archive was extracted to.
ConfName(i, z) == [id |-> i, zip |-> z]

\* No archive has been extracted.
NoArchive == [extracted |-> FALSE, inZip |-> {}, withSeparator |-> {}]

\* main.go 142: strings.Count(filepath.ToSlash(filename), "/") != 0. A name
\* joined to the extracted directory holds a separator; of the names the flags
\* gave, those with an id in withSeparator do.
HasSeparator(filename, withSeparator) == filename.zip \/ filename.id \in withSeparator

----------------------------------------------------------------------------
(* The shutdown functions: atShutdown and generateShutdownFunction.        *)

\* atShutdown(f): append f to the registry.
AtShutdown(fns, f) == Append(fns, f)

\* The position of the heap-profile function in the registry, 0 if absent.
HeapIndex(fns) ==
    IF \E k \in 1..Len(fns) : fns[k] = "heap"
    THEN CHOOSE k \in 1..Len(fns) : fns[k] = "heap"
    ELSE 0

\* Whether creating the heap profile's file may fail in a call of the
\* shutdown functions: only when they have not run and the function is there.
HeapOutcomes(fns) == IF ~completed /\ HeapIndex(fns) > 0 THEN BOOLEAN ELSE {FALSE}

\* The heap-profile function (main.go 80-88) ends the process with log.Fatal
\* when os.Create fails: the functions after it are not called.
Aborted(fns, heapFails) == ~completed /\ heapFails /\ HeapIndex(fns) > 0

\* The functions one call of generateShutdownFunction(nil)() invokes: none when
\* they have already been called, else the registry in order, up to a
\* heap-profile function that fails.
Invoked(fns, heapFails) ==
    IF completed THEN <<>>
    ELSE IF Aborted(fns, heapFails) THEN SubSeq(fns, 1, HeapIndex(fns))
    ELSE fns

\* luapool.Shutdown(): every saved Lua state is closed and the pool is closed.
PoolShutdown(fin, sv) ==
    [c \in Contexts |-> IF c \in Range(sv) THEN fin[c] + 1 ELSE fin[c]]

\* A slip the claims below must notice: Shutdown closes the saved Lua states
\* and leaves them among the saved ones.
ShutdownPoolKeepsSaved(p) ==
    [state |-> "closed", saved |-> p.saved,
     finalized |-> PoolShutdown(p.finalized, p.saved)]

\* luapool.Shutdown() on the pool p: the saved Lua states are closed, none is
\* saved any longer, the pool is closed.
ShutdownPool(p) ==
    [state |-> "closed", saved |-> <<>>,
     finalized |-> PoolShutdown(p.finalized, p.saved)]

\* One call of the shutdown functions, with registry fns, pool contents sv and
\* file handles fls as they are when it starts: what it leaves behind.
ShutdownResult(fns, sv, fls, heapFails) ==
    LET inv == Invoked(fns, heapFails)
        done == Range(inv) \ (IF Aborted(fns, heapFails) THEN {"heap"} ELSE {})
        q == ShutdownPool([state |-> poolState, saved |-> sv, finalized |-> finalized])
    IN  [ran |-> ran \o inv,
         completed |-> (completed \/ ~Aborted(fns, heapFails)),
         poolState |-> IF "pool" \in done THEN q.state ELSE poolState,
         finalized |-> IF "pool" \in done THEN q.finalized ELSE finalized,
         saved |-> IF "pool" \in done THEN q.saved ELSE sv,
         files |-> IF "closeLog" \in done /\ fls["fallbackLog"] = "open"
                   THEN [fls EXCEPT !["fallbackLog"] = "closed"]
                   ELSE fls]

RunShutdownFunctions(fns, sv, fls, heapFails) ==
    LET r == ShutdownResult(fns, sv, fls, heapFails)
    IN  /\ ran' = r.ran
        /\ released' = released \o Invoked(fns, heapFails)
        /\ completed' = r.completed
        /\ poolState' = r.poolState
        /\ finalized' = r.finalized
        /\ saved' = r.saved
        /\ files' = r.files

\* The process ends: no later statement of main runs.
Exit(kind, cause) ==
    /\ pc' = "exited"
    /\ exitKind' = kind
    /\ exitCause' = cause

\* logrus' log.Fatal / log.Fatalln: log, then os.Exit(1). Neither the deferred
\* calls nor the shutdown functions run.
LogFatal(cause) == Exit("fatal", cause)

\* fatalExit(err): the shutdown functions run, then the process exits.
FatalExitWith(fns, sv, fls, cause) ==
    \E heapFails \in HeapOutcomes(fns) :
        /\ RunShutdownFunctions(fns, sv, fls, heapFails)
        /\ IF Aborted(fns, heapFails)
           THEN LogFatal("heapProfile")
           ELSE Exit("fatal", cause)

FatalExit(cause) == FatalExitWith(shutdownFunctions, saved, files, cause)

----------------------------------------------------------------------------
(* The Lua state pool (lStatePool).                                        *)

\* A slip the claims below must notice: Get hands out the last saved Lua
\* state and leaves it among the saved ones.
PoolGetKeepsSaved(sv, cr) ==
    IF Len(sv) = 0
    THEN [ctx |-> cr + 1, saved |-> sv, created |-> cr + 1]
    ELSE [ctx |-> sv[Len(sv)], saved |-> sv, created |-> cr]

\* luapool.Get(): the last saved Lua state, or a new one when none is saved.
PoolGet(sv, cr) ==
    IF Len(sv) = 0
    THEN [ctx |-> cr + 1, saved |-> sv, created |-> cr + 1]
    ELSE [ctx |-> sv[Len(sv)], saved |-> SubSeq(sv, 1, Len(sv) - 1), created |-> cr]

\* luapool.Put(L): L is saved for the next Get.
PoolPut(sv, c) == Append(sv, c)

\* runConfiguration's use of the pool: Get, run the script, Put.
PoolAfterScript(sv, cr) ==
    LET g == PoolGet(sv, cr)
    IN  [saved |-> PoolPut(g.saved, g.ctx), created |-> g.created]

----------------------------------------------------------------------------
(* Initial state: the process has started, main has not run a statement.   *)

Init ==
    /\ pc = "start"
    /\ exitKind = "running"
    /\ exitCause = ""
    /\ tempDir = "none"
    /\ files = [f \in FileNames |-> "none"]
    /\ deferred = <<>>
    /\ opts = {}
    /\ shutdownFunctions = <<>>
    /\ ran = <<>>
    /\ completed = FALSE
    /\ serverDir = ""
    /\ singleFileMode = FALSE
    /\ serveJustHTTP = FALSE
    /\ perm = "nil"
    /\ luaServerFilename = ""
    /\ serverConfigurationFilenames = <<>>
    /\ ranConfigurationFilenames = <<>>
    /\ idx = 1
    /\ runs = <<>>
    /\ serverScriptRan = FALSE
    /\ registerCount = 0
    /\ poolState = "none"
    /\ saved = <<>>
    /\ created = 0
    /\ held = [c \in Consumers |-> {}]
    /\ finalized = [c \in Contexts |-> 0]
    /\ replRunning = FALSE
    /\ released = <<>>
    /\ logTargets = <<>>
    /\ rangeOver = <<>>
    /\ zipDraw = NoArchive
    /\ serverScriptFailed = FALSE
    /\ productionMode = FALSE
    /\ serveJustHTTP2 = FALSE
    /\ protocol = "entry"
    /\ trail = <<>>
    /\ plainListener = [status |-> "none", addr |-> ""]
    /\ secureListener = [status |-> "none", addr |-> ""]

----------------------------------------------------------------------------
(* main, statement by statement.                                           *)

\* main.go 44-49: the temporary directory and its deferred removal.
TempDir ==
    /\ pc = "start"
    /\ \/ /\ LogFatal("tempDir")
          /\ UNCHANGED resVars
       \/ /\ tempDir' = "present"
          /\ deferred' = Append(deferred, "removeTemp")
          /\ pc' = "flags"
          /\ UNCHANGED exitVars
    /\ UNCHANGED <<regVars, shutdownVars, poolVars, modeVars, confVars, handlerVars>>
    /\ UNCHANGED <<histVars, protoVars>>

\* main.go 52: handleFlags sets the globals main works on.
HandleFlags ==
    /\ pc = "flags"
    /\ \E d \in ServerDirs, n \in 0..MaxSources, lua \in {"", "server.lua"} :
          /\ serverDir' = d
          /\ luaServerFilename' = lua
          /\ serverConfigurationFilenames' = [i \in 1..n |-> ConfName(i, FALSE)]
    /\ pc' = "version"
    /\ UNCHANGED <<exitVars, resVars, regVars, shutdownVars, poolVars,
                   singleFileMode, serveJustHTTP, perm,
                   ranConfigurationFilenames, idx, runs, handlerVars>>
    /\ UNCHANGED <<histVars, protoVars>>

\* main.go 54-60: with showVersion the process ends by os.Exit(0).
Version ==
    /\ pc = "version"
    /\ \/ Exit("exit0", "version")
       \/ /\ pc' = "cpu"
          /\ UNCHANGED exitVars
    /\ UNCHANGED <<resVars, regVars, shutdownVars, poolVars, modeVars, confVars,
                   handlerVars>>
    /\ UNCHANGED <<histVars, protoVars>>

\* main.go 62-76: CPU profiling.
CPUProfiling ==
    /\ pc = "cpu"
    /\ \/ /\ pc' = "mem"
          /\ UNCHANGED <<exitVars, regVars, files>>
       \/ /\ LogFatal("createCPUProfile")
          /\ UNCHANGED <<regVars, files>>
       \/ /\ files' = [files EXCEPT !["cpuProfile"] = "open"]
          /\ opts' = opts \cup {"cpu"}
          /\ shutdownFunctions' = AtShutdown(shutdownFunctions, "stopCPU")
          /\ pc' = "mem"
          /\ UNCHANGED exitVars
    /\ UNCHANGED <<resVars, ran, released, completed, poolState, finalized, saved, poolVars,
                   modeVars, confVars, handlerVars>>
    /\ UNCHANGED <<histVars, protoVars>>

\* main.go 78-89: memory profiling at server shutdown.
MemProfiling ==
    /\ pc = "mem"
    /\ \/ UNCHANGED regVars
       \/ /\ opts' = opts \cup {"mem"}
          /\ shutdownFunctions' = AtShutdown(shutdownFunctions, "heap")
    /\ pc' = "serverDir"
    /\ UNCHANGED <<exitVars, resVars, shutdownVars, poolVars, modeVars, confVars,
                   handlerVars>>
    /\ UNCHANGED <<histVars, protoVars>>

\* main.go 130-137: for each filename of the list as it was when the loop
\* started, the name joined to the extracted directory is appended when such a
\* file exists (inZip: the ids of the filenames found there).
RegisterExtracted(list, inZip) ==
    list \o [k \in 1..Cardinality({i \in 1..Len(list) : list[i].id \in inZip}) |->
                LET i == CHOOSE i \in 1..Len(list) :
                             /\ list[i].id \in inZip
                             /\ Cardinality({j \in 1..i : list[j].id \in inZip}) = k
                IN  ConfName(list[i].id, TRUE)]

\* main.go 141-146: the range runs over the slice as it was when the loop
\* started (arr, whose elements are read as the loop reaches them), while the
\* global slice shares its array and has the length len. Removing index i
\* shifts the elements after it one place down in the shared array;
\* serverConfigurationFilenames[i+1:] panics when i+1 exceeds len.
RECURSIVE DisregardCurrentDir(_, _, _, _)
DisregardCurrentDir(arr, len, i, withSeparator) ==
    IF i > Len(arr) THEN [panic |-> FALSE, list |-> SubSeq(arr, 1, len)]
    ELSE IF HasSeparator(arr[i], withSeparator)
         THEN DisregardCurrentDir(arr, len, i + 1, withSeparator)
    ELSE IF i > len THEN [panic |-> TRUE, list |-> SubSeq(arr, 1, len)]
    ELSE DisregardCurrentDir(
             [j \in 1..Len(arr) |-> IF j >= i /\ j < len THEN arr[j + 1] ELSE arr[j]],
             len - 1, i + 1, withSeparator)

\* main.go 130-146 together.
ZipConfiguration(list, inZip, withSeparator) ==
    LET all == RegisterExtracted(list, inZip)
    IN  DisregardCurrentDir(all, Len(all), 1, withSeparator)

\* A run-time panic in main: the deferred calls run, then the process ends.
\* Only the removal of the temporary directory is deferred by then.
Panic(cause) ==
    /\ Exit("panic", cause)
    /\ tempDir' = IF "removeTemp" \in Range(deferred) THEN "removed" ELSE tempDir
    /\ UNCHANGED deferred

\* main.go 101-153: what the server directory argument names.
ServerDir ==
    /\ pc = "serverDir"
    /\ \/ /\ serverDir = "www"
          /\ pc' = "perm"
          /\ UNCHANGED <<exitVars, resVars, shutdownVars, serverDir, singleFileMode,
                         serverConfigurationFilenames, zipDraw>>
       \/ /\ serverDir = "nofile"
          /\ FatalExit("fileMissing")
          /\ UNCHANGED <<resVars, serverDir, singleFileMode,
                         serverConfigurationFilenames, zipDraw>>
       \/ /\ serverDir = "README.md"
          /\ pc' = "static"
          /\ UNCHANGED <<exitVars, resVars, shutdownVars, serverDir, singleFileMode,
                         serverConfigurationFilenames, zipDraw>>
       \/ /\ serverDir = "app.zip"
          /\ LogFatal("extract")
          /\ UNCHANGED <<resVars, shutdownVars, serverDir, singleFileMode,
                         serverConfigurationFilenames, zipDraw>>
       \/ /\ serverDir = "app.zip"
          /\ \E inZip, withSeparator \in
                    SUBSET {serverConfigurationFilenames[i].id :
                                i \in 1..Len(serverConfigurationFilenames)} :
                LET r == ZipConfiguration(serverConfigurationFilenames, inZip,
                                          withSeparator)
                IN  /\ Len(serverConfigurationFilenames) + Cardinality(inZip) <= MaxSources
                    /\ serverConfigurationFilenames' = r.list
                    /\ zipDraw' = [extracted |-> TRUE, inZip |-> inZip,
                                   withSeparator |-> withSeparator]
                    /\ IF r.panic
                       THEN Panic("sliceBounds") /\ UNCHANGED serverDir
                       ELSE /\ pc' = "perm"
                            /\ serverDir' = "extracted"
                            /\ UNCHANGED <<exitVars, resVars>>
          /\ UNCHANGED <<shutdownVars, singleFileMode>>
       \/ /\ serverDir \in {"page.html", "index.lua"}
          /\ singleFileMode' = TRUE
          /\ pc' = "perm"
          /\ UNCHANGED <<exitVars, resVars, shutdownVars, serverDir,
                         serverConfigurationFilenames, zipDraw>>
    /\ UNCHANGED <<regVars, poolVars, serveJustHTTP, perm, luaServerFilename,
                   ranConfigurationFilenames, idx, runs, handlerVars>>
    /\ UNCHANGED <<logTargets, rangeOver, serverScriptFailed, protoVars>>

\* main.go 111-112: serveStaticFile serves until its server stops, and main
\* returns. The graceful server's shutdown may or may not have called the
\* shutdown functions by then (see main.go 349).
ServeStaticFile ==
    /\ pc = "static"
    /\ \/ /\ pc' = "returning"
          /\ UNCHANGED <<exitVars, shutdownVars>>
       \/ \E heapFails \in HeapOutcomes(shutdownFunctions) :
             /\ RunShutdownFunctions(shutdownFunctions, saved, files, heapFails)
             /\ IF Aborted(shutdownFunctions, heapFails)
                THEN LogFatal("heapProfile")
                ELSE pc' = "returning" /\ UNCHANGED exitVars
    /\ UNCHANGED <<resVars, regVars, poolVars, modeVars, confVars, handlerVars>>
    /\ UNCHANGED <<histVars, protoVars>>

\* A slip the claims below must notice: single file mode leaves serveJustHTTP
\* as the flags gave it.
SingleFileKeepsFlag(flag, single) == flag

\* main.go 155-159: in single file mode serveJustHTTP is set, whatever the
\* flags gave.
SingleFileDefaults(flag, single) == flag \/ single

\* main.go 155-183: single file mode serves just HTTP; the permissions are
\* acquired unless the database backend is disabled.
Permissions ==
    /\ pc = "perm"
    /\ serveJustHTTP' = SingleFileDefaults(serveJustHTTP, singleFileMode)
    /\ \/ /\ perm' = "nil"
          /\ pc' = "pool"
          /\ UNCHANGED exitVars
       \/ /\ LogFatal("database")
          /\ UNCHANGED perm
       \/ /\ perm' = "present"
          /\ pc' = "pool"
          /\ UNCHANGED exitVars
    /\ UNCHANGED <<resVars, regVars, shutdownVars, poolVars, serverDir, singleFileMode,
                   luaServerFilename, confVars, handlerVars>>
    /\ UNCHANGED <<histVars, protoVars>>

\* A slip the claims below must notice: the pool's shutdown function is put
\* ahead of the functions registered before it.
LuaPoolRegisteredFirst ==
    /\ pc = "pool"
    /\ poolState' = "open"
    /\ saved' = <<>>
    /\ shutdownFunctions' = <<"pool">> \o shutdownFunctions
    /\ pc' = "standalone"
    /\ UNCHANGED <<exitVars, resVars, opts, ran, released, completed, finalized, files, poolVars,
                   modeVars, confVars, handlerVars>>
    /\ UNCHANGED <<histVars, protoVars>>

\* main.go 185-189: the Lua state pool and its shutdown function.
LuaPool ==
    /\ pc = "pool"
    /\ poolState' = "open"
    /\ saved' = <<>>
    /\ shutdownFunctions' = AtShutdown(shutdownFunctions, "pool")
    /\ pc' = "standalone"
    /\ UNCHANGED <<exitVars, resVars, opts, ran, released, completed, finalized, files, poolVars,
                   modeVars, confVars, handlerVars>>
    /\ UNCHANGED <<histVars, protoVars>>

\* main.go 198-205: a single Lua file is run as a standalone server.
StandaloneLua ==
    /\ pc = "standalone"
    /\ IF singleFileMode /\ serverDir = "index.lua"
       THEN /\ luaServerFilename' = serverDir
            /\ serverDir' = "."
            /\ singleFileMode' = FALSE
       ELSE UNCHANGED <<luaServerFilename, serverDir, singleFileMode>>
    /\ pc' = "serverLog"
    /\ UNCHANGED <<exitVars, resVars, regVars, shutdownVars, poolVars, serveJustHTTP,
                   perm, confVars, handlerVars>>
    /\ UNCHANGED <<histVars, protoVars>>

\* main.go 207-219: the server log file, if one has been specified. The
\* configuration loop that follows (main.go 229) ranges over the slice as it is
\* when the loop starts.
ServerLog ==
    /\ pc = "serverLog"
    /\ \/ /\ pc' = "config"
          /\ rangeOver' = serverConfigurationFilenames
          /\ UNCHANGED <<exitVars, shutdownVars>>
       \/ /\ FatalExit("serverLog")
          /\ UNCHANGED rangeOver
       \/ /\ files' = [files EXCEPT !["serverLog"] = "open"]
          /\ pc' = "config"
          /\ rangeOver' = serverConfigurationFilenames
          /\ UNCHANGED <<exitVars, ran, released, completed, poolState, finalized,
                         saved>>
    /\ UNCHANGED <<resVars, regVars, poolVars, modeVars, confVars, handlerVars>>
    /\ UNCHANGED <<logTargets, zipDraw, serverScriptFailed, protoVars>>

\* A slip the claims below must notice: a script error is never fatal.
ScriptErrorNeverFatal == FALSE

\* A slip the claims below must notice: a script error is always fatal.
ScriptErrorAlwaysFatal == TRUE

\* main.go 236: a script error is fatal when a permission backend is present.
ScriptErrorIsFatal == perm # "nil"

\* main.go 242: the filename is recorded as ran once the if statement of
\* line 234 is left, whatever runConfiguration returned.
RecordRan(list, filename, err) == Append(list, filename)

\* A slip the claims below must notice: the loop takes the filenames from the
\* end of the slice.
RangeElementFromEnd(list, i) == list[Len(list) + 1 - i]

\* main.go 229: the filename the i-th iteration of the range works on.
RangeElement(list, i) == list[i]

\* main.go 229-244: one iteration of the loop over the configuration
\* filenames. runConfiguration takes a Lua state from the pool, runs the script
\* and puts the Lua state back.
RunConfigurationFile ==
    /\ pc = "config"
    /\ idx <= Len(rangeOver)
    /\ LET filename == RangeElement(rangeOver, idx)
           p == PoolAfterScript(saved, created)
       IN  \/ /\ runs' = Append(runs, [file |-> filename, result |-> "unreadable"])
              /\ idx' = idx + 1
              /\ UNCHANGED <<pc, exitVars, shutdownVars, created,
                             ranConfigurationFilenames>>
           \/ /\ runs' = Append(runs, [file |-> filename, result |-> "ok"])
              /\ saved' = p.saved
              /\ created' = p.created
              /\ ranConfigurationFilenames' =
                     RecordRan(ranConfigurationFilenames, filename, FALSE)
              /\ idx' = idx + 1
              /\ UNCHANGED <<pc, exitVars, ran, released, completed, poolState, finalized, files>>
           \/ /\ runs' = Append(runs, [file |-> filename, result |-> "error"])
              /\ created' = p.created
              /\ IF ScriptErrorIsFatal
                 THEN /\ FatalExitWith(shutdownFunctions, p.saved, files, "configError")
                      /\ UNCHANGED <<ranConfigurationFilenames, idx>>
                 ELSE /\ saved' = p.saved
                      /\ ranConfigurationFilenames' =
                             RecordRan(ranConfigurationFilenames, filename, TRUE)
                      /\ idx' = idx + 1
                      /\ UNCHANGED <<pc, exitVars, ran, released, completed, poolState, finalized,
                                     files>>
    /\ UNCHANGED <<resVars, regVars, held, modeVars, serverConfigurationFilenames,
                   handlerVars>>
    /\ UNCHANGED <<histVars, protoVars>>

\* main.go 245-246: only the filenames recorded as ran are kept.
KeepActive ==
    /\ pc = "config"
    /\ idx > Len(rangeOver)
    /\ serverConfigurationFilenames' = ranConfigurationFilenames
    /\ pc' = "luaServer"
    /\ UNCHANGED <<exitVars, resVars, regVars, shutdownVars, poolVars, modeVars,
                   ranConfigurationFilenames, idx, runs, handlerVars>>
    /\ UNCHANGED <<histVars, protoVars>>

\* A slip the claims below must notice: the HTTP handlers are registered
\* although a Lua server file has been specified.
UseLuaServerNever == FALSE

\* main.go 249: the standalone Lua server is run when one has been specified.
UseLuaServer == luaServerFilename # ""

\* A slip the claims below must notice: an error of the Lua server file is
\* treated like that of a configuration file.
ServerScriptErrorAsConfiguration == perm # "nil"

\* main.go 254-257: an error of the Lua server file is fatal, whatever perm is.
ServerScriptErrorIsFatal == TRUE

\* main.go 248-261: the standalone Lua server, or else the HTTP handlers.
LuaServer ==
    /\ pc = "luaServer"
    /\ LET p == PoolAfterScript(saved, created)
       IN  \/ /\ UseLuaServer
              /\ serverScriptRan' = TRUE
              /\ saved' = p.saved
              /\ created' = p.created
              /\ pc' = "internalLog"
              /\ UNCHANGED <<exitVars, ran, released, completed, poolState, finalized,
                             files, registerCount, serverScriptFailed>>
           \/ /\ UseLuaServer
              /\ serverScriptFailed' = TRUE
              /\ created' = p.created
              /\ IF ServerScriptErrorIsFatal
                 THEN FatalExitWith(shutdownFunctions, p.saved, files, "luaServerError")
                 ELSE /\ saved' = p.saved
                      /\ pc' = "internalLog"
                      /\ UNCHANGED <<exitVars, ran, released, completed, poolState,
                                     finalized, files>>
              /\ UNCHANGED <<serverScriptRan, registerCount>>
           \/ /\ ~UseLuaServer
              /\ registerCount' = registerCount + 1
              /\ pc' = "internalLog"
              /\ UNCHANGED <<exitVars, shutdownVars, created, serverScriptRan,
                             serverScriptFailed>>
    /\ UNCHANGED <<resVars, regVars, held, modeVars, confVars, replRunning>>
    /\ UNCHANGED <<logTargets, rangeOver, zipDraw, protoVars>>

\* A slip the claims below must notice: startup goes on without an internal
\* log file.
BothLogsFailingIgnored == FALSE

\* main.go 295-297: when "internal.log" cannot be opened either, fatalExit.
BothLogsFailingIsFatal == TRUE

\* main.go 282-299: the internal log file; "internal.log" is tried when the
\* configured file cannot be opened. The deferred Close is that of the handle
\* os.Open returned (nil when it failed).
InternalLog ==
    /\ pc = "internalLog"
    /\ deferred' = Append(deferred, "closeInternalLog")
    /\ \/ /\ files' = [files EXCEPT !["internalLog"] = "open"]
          /\ logTargets' = <<"internalLogFilename">>
          /\ pc' = "repl"
          /\ UNCHANGED <<exitVars, regVars, ran, released, completed, poolState, finalized, saved>>
       \/ /\ files' = [files EXCEPT !["fallbackLog"] = "open"]
          /\ logTargets' = <<"internalLogFilename", "internal.log">>
          /\ opts' = opts \cup {"fallbackLog"}
          /\ shutdownFunctions' = AtShutdown(shutdownFunctions, "closeLog")
          /\ pc' = "repl"
          /\ UNCHANGED <<exitVars, ran, released, completed, poolState, finalized, saved>>
       \/ /\ logTargets' = <<"internalLogFilename", "internal.log">>
          /\ opts' = opts \cup {"fallbackLog"}
          /\ shutdownFunctions' = AtShutdown(shutdownFunctions, "closeLog")
          /\ IF BothLogsFailingIsFatal
             THEN FatalExitWith(shutdownFunctions', saved, files, "internalLog")
             ELSE /\ pc' = "repl"
                  /\ UNCHANGED <<exitVars, shutdownVars>>
    /\ UNCHANGED <<tempDir, poolVars, modeVars, confVars, handlerVars>>
    /\ UNCHANGED <<rangeOver, zipDraw, serverScriptFailed, protoVars>>

\* main.go 324-333: the Lua REPL runs in a goroutine of its own unless the
\* server mode is set.
StartREPL ==
    /\ pc = "repl"
    /\ \/ replRunning' = TRUE
       \/ UNCHANGED replRunning
    /\ pc' = "serve"
    /\ UNCHANGED <<exitVars, resVars, regVars, shutdownVars, poolVars, modeVars,
                   confVars, serverScriptRan, registerCount>>
    /\ UNCHANGED <<histVars, protoVars>>

\* main.go 349-353: the shutdown functions are deferred, and serve is entered.
Serve ==
    /\ pc = "serve"
    /\ deferred' = Append(deferred, "drain")
    /\ pc' = "serving"
    /\ UNCHANGED <<exitVars, tempDir, regVars, shutdownVars, poolVars, modeVars,
                   confVars, handlerVars>>
    /\ UNCHANGED <<histVars, protoVars>>

\* The consumers of the pool that run beside main: the REPL once it has
\* been started, the request handlers while serve runs.
Running(c) ==
    \/ c = "repl" /\ replRunning /\ pc \in {"serve", "serving"}
    \/ c \in {"handler1", "handler2"} /\ pc = "serving"

\* A consumer takes a Lua state from the pool.
Acquire(c) ==
    /\ Running(c)
    /\ LET g == PoolGet(saved, created)
       IN  /\ g.created <= MaxContexts
           /\ saved' = g.saved
           /\ created' = g.created
           /\ held' = [held EXCEPT ![c] = @ \cup {g.ctx}]
    /\ UNCHANGED <<pc, exitVars, resVars, regVars, ran, released, completed, poolState, finalized,
                   files, modeVars, confVars, handlerVars>>
    /\ UNCHANGED <<histVars, protoVars>>

\* A consumer puts a Lua state it holds back.
Release(c) ==
    /\ Running(c)
    /\ \E x \in held[c] :
          /\ saved' = PoolPut(saved, x)
          /\ held' = [held EXCEPT ![c] = @ \ {x}]
    /\ UNCHANGED <<pc, exitVars, resVars, regVars, ran, released, completed, poolState, finalized,
                   files, created, modeVars, confVars, handlerVars>>
    /\ UNCHANGED <<histVars, protoVars>>

\* main.go 353-355: serve returns. With an error, fatalExit; without, the
\* graceful server's shutdown may or may not have called the shutdown
\* functions (main.go 349).
ServeReturn ==
    /\ pc = "serving"
    /\ \/ FatalExit("serve")
       \/ /\ pc' = "returning"
          /\ UNCHANGED <<exitVars, shutdownVars>>
       \/ \E heapFails \in HeapOutcomes(shutdownFunctions) :
             /\ RunShutdownFunctions(shutdownFunctions, saved, files, heapFails)
             /\ IF Aborted(shutdownFunctions, heapFails)
                THEN LogFatal("heapProfile")
                ELSE pc' = "returning" /\ UNCHANGED exitVars
    /\ UNCHANGED <<resVars, regVars, poolVars, modeVars, confVars, handlerVars>>
    /\ UNCHANGED <<histVars, protoVars>>

\* A slip the claims below must notice: the deferred calls run in the order
\* they were deferred in.
DeferredOldestFirst(d) == d

\* main.go 49, 284, 350: the deferred calls of main run last deferred first.
DeferredOrder(d) == [i \in 1..Len(d) |-> d[Len(d) + 1 - i]]

\* The place of the deferred call of the shutdown functions among the calls, 0
\* if it is not among them.
DrainIndex(calls) ==
    IF \E k \in 1..Len(calls) : calls[k] = "drain"
    THEN CHOOSE k \in 1..Len(calls) : calls[k] = "drain"
    ELSE 0

\* What a run of deferred calls releases, in order: the deferred call of the
\* shutdown functions releases what these functions (inv) release.
RECURSIVE ReleasedBy(_, _)
ReleasedBy(calls, inv) ==
    IF calls = <<>> THEN <<>>
    ELSE (IF Head(calls) = "drain" THEN inv ELSE <<Head(calls)>>)
             \o ReleasedBy(Tail(calls), inv)

\* main returns (main.go 112, 356): its deferred calls run. A heap-profile
\* function that fails ends the process within the deferred call of the
\* shutdown functions: the deferred calls after it do not run.
MainReturn ==
    /\ pc = "returning"
    /\ LET order == DeferredOrder(deferred)
           drain == DrainIndex(order) > 0
       IN  \E heapFails \in (IF drain THEN HeapOutcomes(shutdownFunctions) ELSE {FALSE}) :
              LET aborted == drain /\ Aborted(shutdownFunctions, heapFails)
                  calls == IF aborted THEN SubSeq(order, 1, DrainIndex(order)) ELSE order
                  r == ShutdownResult(IF drain THEN shutdownFunctions ELSE <<>>,
                                      saved, files, heapFails)
                  inv == IF drain THEN Invoked(shutdownFunctions, heapFails) ELSE <<>>
              IN  /\ ran' = r.ran
                  /\ released' = released \o ReleasedBy(calls, inv)
                  /\ completed' = IF drain THEN r.completed ELSE completed
                  /\ poolState' = r.poolState
                  /\ finalized' = r.finalized
                  /\ saved' = r.saved
                  /\ files' = IF /\ "closeInternalLog" \in Range(calls)
                                 /\ r.files["internalLog"] = "open"
                              THEN [r.files EXCEPT !["internalLog"] = "closed"]
                              ELSE r.files
                  /\ tempDir' = IF "removeTemp" \in Range(calls)
                                THEN "removed" ELSE tempDir
                  /\ IF aborted
                     THEN LogFatal("heapProfile") /\ UNCHANGED deferred
                     ELSE Exit("return", "main") /\ deferred' = <<>>
    /\ UNCHANGED <<regVars, poolVars, modeVars, confVars, handlerVars>>
    /\ UNCHANGED <<histVars, protoVars>>

Next ==
    \/ TempDir
    \/ HandleFlags
    \/ Version
    \/ CPUProfiling
    \/ MemProfiling
    \/ ServerDir
    \/ ServeStaticFile
    \/ Permissions
    \/ LuaPool
    \/ StandaloneLua
    \/ ServerLog
    \/ RunConfigurationFile
    \/ KeepActive
    \/ LuaServer
    \/ InternalLog
    \/ StartREPL
    \/ Serve
    \/ ServeReturn
    \/ MainReturn

Spec == Init /\ [][Next]_vars

----------------------------------------------------------------------------
(* The pool under its concurrent consumers. main is in serve: the REPL and  *)
(* the request handlers take and put back Lua states in any order, until   *)
(* serve returns and main with it.                                         *)

\* States main reaches: a directory is served with no configuration files,
\* with or without memory profiling; the handlers are registered, the REPL runs
\* and serve has been entered.
PoolInit ==
    /\ pc = "serving"
    /\ exitKind = "running"
    /\ exitCause = ""
    /\ tempDir = "present"
    /\ files = [f \in FileNames |-> IF f = "internalLog" THEN "open" ELSE "none"]
    /\ deferred = <<"removeTemp", "closeInternalLog", "drain">>
    /\ \/ opts = {} /\ shutdownFunctions = <<"pool">>
       \/ opts = {"mem"} /\ shutdownFunctions = <<"heap", "pool">>
    /\ ran = <<>>
    /\ completed = FALSE
    /\ serverDir = "www"
    /\ singleFileMode = FALSE
    /\ serveJustHTTP = FALSE
    /\ perm = "nil"
    /\ luaServerFilename = ""
    /\ serverConfigurationFilenames = <<>>
    /\ ranConfigurationFilenames = <<>>
    /\ idx = 1
    /\ runs = <<>>
    /\ serverScriptRan = FALSE
    /\ registerCount = 1
    /\ poolState = "open"
    /\ saved = <<>>
    /\ created = 0
    /\ held = [c \in Consumers |-> {}]
    /\ finalized = [c \in Contexts |-> 0]
    /\ replRunning = TRUE
    /\ released = <<>>
    /\ logTargets = <<"internalLogFilename">>
    /\ rangeOver = <<>>
    /\ zipDraw = NoArchive
    /\ serverScriptFailed = FALSE
    /\ productionMode = FALSE
    /\ serveJustHTTP2 = FALSE
    /\ protocol = "entry"
    /\ trail = <<>>
    /\ plainListener = [status |-> "none", addr |-> ""]
    /\ secureListener = [status |-> "none", addr |-> ""]

PoolNext ==
    \/ \E c \in Consumers : Acquire(c)
    \/ \E c \in Consumers : Release(c)
    \/ ServeReturn
    \/ MainReturn

PoolSpec == PoolInit /\ [][PoolNext]_vars

----------------------------------------------------------------------------
(* serve: the protocol the server is brought up with. main is in serve,    *)
(* which has been handed conf (main.go 337-347); the flags of conf are     *)
(* drawn as serve reads them.                                               *)

\* A listener: how it fares (none: not set up yet; listening; failed: it could
\* not be established; killed: it failed while it served; stopped: by the
\* termination signal) and the address it is bound to.
Listener(status, addr) == [status |-> status, addr |-> addr]
NoListener == Listener("none", "")

\* The protocol states serve starts in, by the flags of conf in their fixed
\* precedence.
InitialProtocol(production, justHTTP2, justHTTP) ==
    IF production THEN "Production"
    ELSE IF justHTTP2 THEN "UpgradedHTTP"
    ELSE IF ~(justHTTP2 \/ justHTTP) THEN "SecureUpgradedHTTP"
    ELSE "PlainHTTP"

\* A slip the claims below must notice: the HTTPS listener is tried again when
\* it cannot be established.
SecureFailureRetries(addr) ==
    [protocol |-> "SecureUpgradedHTTP", secure |-> NoListener]

\* The HTTPS listener cannot be established outside production mode: the
\* failure is logged and plain HTTP is served instead.
OnSecureFailure(addr) ==
    [protocol |-> "PlainHTTP", secure |-> Listener("failed", addr)]

\* A slip the claims below must notice: in production mode a listener that
\* fails takes the other one down with it.
ProductionPeerStops(l) ==
    IF l.status = "listening" THEN Listener("stopped", l.addr) ELSE l

\* In production mode the failure of one listener leaves the other as it is.
ProductionPeer(l) == l

\* States main reaches, with the flags serve reads drawn: a directory or a
\* single file is served, the handlers are registered, the REPL runs and
\* serve has been entered.
ProtoInit ==
    /\ pc = "serving"
    /\ exitKind = "running"
    /\ exitCause = ""
    /\ tempDir = "present"
    /\ files = [f \in FileNames |-> IF f = "internalLog" THEN "open" ELSE "none"]
    /\ deferred = <<"removeTemp", "closeInternalLog", "drain">>
    /\ opts = {}
    /\ shutdownFunctions = <<"pool">>
    /\ ran = <<>>
    /\ released = <<>>
    /\ completed = FALSE
    /\ \E single, flag \in BOOLEAN :
          /\ serverDir = IF single THEN "page.html" ELSE "www"
          /\ singleFileMode = single
          /\ serveJustHTTP = SingleFileDefaults(flag, single)
    /\ perm = "nil"
    /\ luaServerFilename = ""
    /\ serverConfigurationFilenames = <<>>
    /\ ranConfigurationFilenames = <<>>
    /\ idx = 1
    /\ runs = <<>>
    /\ serverScriptRan = FALSE
    /\ registerCount = 1
    /\ poolState = "open"
    /\ saved = <<>>
    /\ created = 0
    /\ held = [c \in Consumers |-> {}]
    /\ finalized = [c \in Contexts |-> 0]
    /\ replRunning = TRUE
    /\ logTargets = <<"internalLogFilename">>
    /\ rangeOver = <<>>
    /\ zipDraw = NoArchive
    /\ serverScriptFailed = FALSE
    /\ productionMode \in BOOLEAN
    /\ serveJustHTTP2 \in BOOLEAN
    /\ protocol = "entry"
    /\ trail = <<>>
    /\ plainListener = NoListener
    /\ secureListener = NoListener

\* What serve leaves alone.
mainVars == <<pc, exitVars, resVars, regVars, shutdownVars, poolVars, modeVars,
              confVars, handlerVars, histVars, productionMode, serveJustHTTP2>>

\* serve enters the protocol state the flags select.
SelectProtocol ==
    /\ pc = "serving"
    /\ protocol = "entry"
    /\ protocol' = InitialProtocol(productionMode, serveJustHTTP2, serveJustHTTP)
    /\ trail' = Append(trail, protocol')
    /\ UNCHANGED <<mainVars, plainListener, secureListener>>

\* Production: the HTTPS listener on its fixed port. When it cannot be
\* established only a warning is logged.
ProductionSecure ==
    /\ protocol = "Production"
    /\ secureListener.status = "none"
    /\ \/ /\ secureListener' = Listener("listening", ":443")
          /\ UNCHANGED plainListener
       \/ /\ secureListener' = Listener("failed", ":443")
          /\ plainListener' = ProductionPeer(plainListener)
    /\ UNCHANGED <<mainVars, protocol, trail>>

\* Production: the HTTP listener on its fixed port.
ProductionPlain ==
    /\ protocol = "Production"
    /\ plainListener.status = "none"
    /\ \/ /\ plainListener' = Listener("listening", ":80")
          /\ UNCHANGED secureListener
       \/ /\ plainListener' = Listener("failed", ":80")
          /\ secureListener' = ProductionPeer(secureListener)
    /\ UNCHANGED <<mainVars, protocol, trail>>

\* Production: a listener that serves fails; the other one is left serving.
ProductionListenerFails ==
    /\ protocol = "Production"
    /\ \/ /\ secureListener.status = "listening"
          /\ secureListener' = Listener("killed", secureListener.addr)
          /\ plainListener' = ProductionPeer(plainListener)
       \/ /\ plainListener.status = "listening"
          /\ plainListener' = Listener("killed", plainListener.addr)
          /\ secureListener' = ProductionPeer(secureListener)
    /\ UNCHANGED <<mainVars, protocol, trail>>

\* Production: with neither listener left, serve is over.
ProductionEnds ==
    /\ protocol = "Production"
    /\ plainListener.status \in {"failed", "killed"}
    /\ secureListener.status \in {"failed", "killed"}
    /\ protocol' = "Stopped"
    /\ trail' = Append(trail, "Stopped")
    /\ UNCHANGED <<mainVars, plainListener, secureListener>>

\* UpgradedHTTP: HTTP/2 without TLS on the server address; there is no
\* fallback when the listener cannot be established.
UpgradedListen ==
    /\ protocol = "UpgradedHTTP"
    /\ plainListener.status = "none"
    /\ \/ /\ plainListener' = Listener("listening", "serverAddr")
          /\ UNCHANGED <<protocol, trail>>
       \/ /\ plainListener' = Listener("failed", "serverAddr")
          /\ protocol' = "Stopped"
          /\ trail' = Append(trail, "Stopped")
    /\ UNCHANGED <<mainVars, secureListener>>

\* SecureUpgradedHTTP: HTTPS with HTTP/2 on the server address, with the one
\* downgrade to plain HTTP when the listener cannot be established.
SecureListen ==
    /\ protocol = "SecureUpgradedHTTP"
    /\ secureListener.status = "none"
    /\ \/ /\ secureListener' = Listener("listening", "serverAddr")
          /\ UNCHANGED <<protocol, trail>>
       \/ LET r == OnSecureFailure("serverAddr")
          IN  /\ secureListener' = r.secure
              /\ protocol' = r.protocol
              /\ trail' = Append(trail, r.protocol)
    /\ UNCHANGED <<mainVars, plainListener>>

\* PlainHTTP: HTTP on the server address. A listener that cannot be
\* established is fatal.
PlainListen ==
    /\ protocol = "PlainHTTP"
    /\ plainListener.status = "none"
    /\ \/ /\ plainListener' = Listener("listening", "serverAddr")
          /\ UNCHANGED <<protocol, trail>>
       \/ /\ plainListener' = Listener("failed", "serverAddr")
          /\ protocol' = "Stopped"
          /\ trail' = Append(trail, "Stopped")
    /\ UNCHANGED <<mainVars, secureListener>>

\* Outside production mode the one listener that serves fails: serve is over.
ListenerFails ==
    /\ protocol \in {"UpgradedHTTP", "SecureUpgradedHTTP", "PlainHTTP"}
    /\ \/ /\ secureListener.status = "listening"
          /\ secureListener' = Listener("killed", secureListener.addr)
          /\ UNCHANGED plainListener
       \/ /\ plainListener.status = "listening"
          /\ plainListener' = Listener("killed", plainListener.addr)
          /\ UNCHANGED secureListener
    /\ protocol' = "Stopped"
    /\ trail' = Append(trail, "Stopped")
    /\ UNCHANGED mainVars

\* The termination signal: the listeners that serve stop, serve is over.
Signal ==
    /\ protocol \in {"Production", "UpgradedHTTP", "SecureUpgradedHTTP", "PlainHTTP"}
    /\ plainListener' = IF plainListener.status = "listening"
                        THEN Listener("stopped", plainListener.addr) ELSE plainListener
    /\ secureListener' = IF secureListener.status = "listening"
                         THEN Listener("stopped", secureListener.addr)
                         ELSE secureListener
    /\ protocol' = "Stopped"
    /\ trail' = Append(trail, "Stopped")
    /\ UNCHANGED mainVars

ProtoNext ==
    \/ SelectProtocol
    \/ ProductionSecure
    \/ ProductionPlain
    \/ ProductionListenerFails
    \/ ProductionEnds
    \/ UpgradedListen
    \/ SecureListen
    \/ PlainListen
    \/ ListenerFails
    \/ Signal

ProtoSpec == ProtoInit /\ [][ProtoNext]_vars

----------------------------------------------------------------------------
(* The claims.                                                             *)

\* The configuration files that were run and returned an error.
Failed == {k \in 1..Len(runs) : runs[k].result = "error"}

\* The filenames the configuration loop has visited, in order.
Visited == [k \in 1..Len(runs) |-> runs[k].file]

\* The filenames whose scripts ran without error, in order.
RanOK(r) == r.result = "ok"
Succeeded == LET ok == SelectSeq(runs, RanOK) IN [k \in 1..Len(ok) |-> ok[k].file]

\* main has left the configuration loop and goes on towards serve.
PastPipeline == pc \in {"luaServer", "internalLog", "repl", "serve", "serving"}

\* C1: with a permission backend present, a failing configuration script ends
\* the run there: the failing script is the last one visited, the process has
\* exited fatally, and neither the Lua server file, nor registerHandlers, nor
\* serve has been reached.
C1_FatalScriptErrorStopsPipeline ==
    (perm = "present" /\ Failed # {}) =>
        /\ Failed = {Len(runs)}
        /\ pc = "exited"
        /\ exitKind = "fatal"
        /\ exitCause \in {"configError", "heapProfile"}
        /\ ~serverScriptRan
        /\ registerCount = 0
        /\ "drain" \notin Range(deferred)

\* C1's case: the backend is present, a script failed and a later filename of
\* the list was never visited.
C1_Witness ==
    /\ perm = "present"
    /\ Failed # {}
    /\ Len(runs) < Len(serverConfigurationFilenames)
    /\ pc = "exited"

\* C2: without a permission backend no step of the configuration loop ends
\* the run: each step visits the next filename of the list, whatever became of
\* the ones before, and the loop is left only when every filename has been
\* visited.
C2_TolerantPipelineContinues ==
    [][(perm = "nil" /\ pc = "config") =>
          /\ pc' \in {"config", "luaServer"}
          /\ pc' = "config" =>
                 /\ idx' = idx + 1
                 /\ Len(runs') = idx
                 /\ runs'[idx].file = serverConfigurationFilenames[idx]
          /\ pc' = "luaServer" => Visited = serverConfigurationFilenames]_vars

\* C2's case: without a backend a script failed, a later one was still run,
\* the handlers were set up and serve was entered.
C2_Witness ==
    /\ perm = "nil"
    /\ \E k \in Failed : \E j \in (k + 1)..Len(runs) : runs[j].result # "unreadable"
    /\ pc = "serving"
    /\ registerCount = 1

\* C3: once the configuration loop is left, serverConfigurationFilenames holds
\* exactly the filenames whose scripts ran without error, in list order.
C3_OnlySuccessfulSourcesKept ==
    PastPipeline => serverConfigurationFilenames = Succeeded

\* C4: when serve is entered, either the Lua server file ran and
\* registerHandlers was never called, or no Lua server file was specified and
\* registerHandlers was called exactly once.
C4_ServerScriptExcludesHandlers ==
    /\ registerCount <= 1
    /\ pc = "serving" =>
          \/ serverScriptRan /\ registerCount = 0
          \/ luaServerFilename = "" /\ ~serverScriptRan /\ registerCount = 1

\* C4's case: serve is entered after the Lua server file ran.
C4_Witness ==
    /\ pc = "serving"
    /\ serverScriptRan
    /\ luaServerFilename # ""

\* The shutdown functions main may register, in the order of its statements.
RegistrationOrder == <<"stopCPU", "heap", "pool", "closeLog">>

\* Whether main has reached the statement that registers f with f's option on.
Registered(f) ==
    \/ f = "stopCPU" /\ "cpu" \in opts
    \/ f = "heap" /\ "mem" \in opts
    \/ f = "pool" /\ poolState # "none"
    \/ f = "closeLog" /\ "fallbackLog" \in opts

\* How often shutdown function f has been invoked.
Invocations(f) == Cardinality({k \in 1..Len(ran) : ran[k] = f})

\* C5: a process that has exited fatally has invoked every shutdown function
\* registered by then.
C5_FatalExitRunsShutdownFunctions ==
    (pc = "exited" /\ exitKind = "fatal") =>
        \A f \in Range(shutdownFunctions) : f \in Range(ran)

\* C6: when main has returned, every registered shutdown function has been
\* invoked exactly once.
C6_ReturnRunsShutdownFunctionsOnce ==
    (pc = "exited" /\ exitKind = "return") =>
        \A f \in Range(shutdownFunctions) : Invocations(f) = 1

\* C7: the registry is the part of <<stop CPU profiler, write heap profile,
\* shut down the pool, close the internal log>> that the options in force
\* select, the functions are invoked in the registry's order, and once they
\* have all been called the invoked ones are the registry.
C7_ShutdownInRegistrationOrder ==
    /\ shutdownFunctions = SelectSeq(RegistrationOrder, Registered)
    /\ Len(ran) <= Len(shutdownFunctions)
    /\ ran = SubSeq(shutdownFunctions, 1, Len(ran))
    /\ completed => ran = shutdownFunctions

\* C7's case: all the options are on and the four functions have been called.
C7_Witness ==
    /\ completed
    /\ opts = {"cpu", "mem", "fallbackLog"}
    /\ ran = RegistrationOrder

\* C8: once a shutdown function has been invoked, every function registered
\* after it is invoked too, whether or not it failed.
C8_FailingFunctionDoesNotStopTheRest ==
    ran # <<>> => \A f \in Range(shutdownFunctions) : f \in Range(ran)

\* C9: a process that has ended holds nothing main acquired: the temporary
\* directory is removed, the files are closed and the pool is shut down.
C9_EveryResourceReleased ==
    pc = "exited" =>
        /\ tempDir # "present"
        /\ \A f \in FileNames : files[f] # "open"
        /\ poolState # "open"

\* C10: no Lua state is checked out by two consumers at once, and a Lua state
\* that is checked out is not among the saved ones, from which Get would hand
\* it out again.
C10_NoContextHeldTwice ==
    /\ \A c1, c2 \in Consumers : c1 # c2 => held[c1] \cap held[c2] = {}
    /\ \A c \in Consumers : held[c] \cap Range(saved) = {}
    /\ \A i, j \in 1..Len(saved) : i # j => saved[i] # saved[j]

\* C10's case: a Lua state that was put back has been handed out again while
\* another consumer holds the other one.
C10_Witness ==
    /\ held["repl"] = {2}
    /\ held["handler1"] = {1}
    /\ held["handler2"] = {}
    /\ saved = <<>>

\* luapool as it is now.
LuaPoolNow == [state |-> poolState, saved |-> saved, finalized |-> finalized]

\* C11: the pool's Shutdown is idempotent. In every state the consumers'
\* Gets and Puts lead to, calling Shutdown twice leaves the pool as calling it
\* once does; one call closes each saved Lua state once, the second closes
\* none, and in the run itself no Lua state is ever closed more than once.
C11_ShutdownAllIdempotent ==
    LET once == ShutdownPool(LuaPoolNow)
        twice == ShutdownPool(once)
    IN  /\ twice = once
        /\ \A c \in Contexts :
               once.finalized[c] = finalized[c] + (IF c \in Range(saved) THEN 1 ELSE 0)
        /\ \A c \in Contexts : finalized[c] <= 1

\* The pool was shut down while one Lua state was saved and another was
\* checked out.
C11_Witness ==
    /\ poolState = "closed"
    /\ \E c \in Contexts : finalized[c] = 1
    /\ \E c \in Consumers : held[c] # {}

\* How often the protocol state x was entered.
Entered(x) == Cardinality({i \in 1..Len(trail) : trail[i] = x})

\* C12: serve starts in the protocol state the flags of conf select by their
\* fixed precedence: productionMode gives Production; else serveJustHTTP2
\* gives UpgradedHTTP; else, with neither serveJustHTTP2 nor serveJustHTTP,
\* SecureUpgradedHTTP is attempted; otherwise PlainHTTP. Single file mode,
\* which sets serveJustHTTP, never attempts SecureUpgradedHTTP unless one of
\* the first two flags is set.
C12_InitialProtocolByPrecedence ==
    /\ trail # <<>> =>
          /\ productionMode => trail[1] = "Production"
          /\ ~productionMode /\ serveJustHTTP2 => trail[1] = "UpgradedHTTP"
          /\ ~productionMode /\ ~serveJustHTTP2 /\ ~serveJustHTTP
                 => trail[1] = "SecureUpgradedHTTP"
          /\ ~productionMode /\ ~serveJustHTTP2 /\ serveJustHTTP
                 => trail[1] = "PlainHTTP"
    /\ singleFileMode /\ ~productionMode /\ ~serveJustHTTP2
          => Entered("SecureUpgradedHTTP") = 0

\* A single file is served over plain HTTP.
C12_Witness ==
    /\ singleFileMode
    /\ trail # <<>>
    /\ trail[1] = "PlainHTTP"
    /\ plainListener.status = "listening"

\* C13: with none of productionMode, serveJustHTTP2 and serveJustHTTP set
\* and an HTTPS listener that cannot be established, SecureUpgradedHTTP is
\* attempted exactly once and PlainHTTP follows on the same address. There is
\* at most one downgrade, the attempt is never made again and PlainHTTP is
\* never left for a stronger protocol.
C13_OneDowngradeOnly ==
    /\ Entered("SecureUpgradedHTTP") <= 1
    /\ Cardinality({i \in 1..Len(trail) - 1 :
                        trail[i] = "SecureUpgradedHTTP" /\ trail[i + 1] = "PlainHTTP"}) <= 1
    /\ \A i \in 1..Len(trail) - 1 : trail[i] = "PlainHTTP" => trail[i + 1] = "Stopped"
    /\ /\ ~productionMode /\ ~serveJustHTTP2 /\ ~serveJustHTTP
       /\ protocol # "entry"
       => /\ trail[1] = "SecureUpgradedHTTP"
          /\ secureListener.status = "failed"
                 <=> Len(trail) >= 2 /\ trail[2] = "PlainHTTP"
          /\ plainListener.addr \in {"", "serverAddr"}
          /\ secureListener.addr \in {"", "serverAddr"}

\* The HTTPS listener could not be established and plain HTTP is served on
\* the address it was tried on.
C13_Witness ==
    /\ ~productionMode /\ ~serveJustHTTP2 /\ ~serveJustHTTP
    /\ trail = <<"SecureUpgradedHTTP", "PlainHTTP">>
    /\ secureListener = Listener("failed", "serverAddr")
    /\ plainListener = Listener("listening", "serverAddr")

\* C14: in production mode the two listeners are independent. A step in
\* which one of them fails leaves the other as it is and the protocol state
\* Production, and Production is never left for a weaker protocol.
C14_ProductionHalvesIndependent ==
    [][protocol = "Production" =>
          /\ protocol' \in {"Production", "Stopped"}
          /\ secureListener'.status \in {"failed", "killed"} \ {secureListener.status}
                 => plainListener' = plainListener /\ protocol' = "Production"
          /\ plainListener'.status \in {"failed", "killed"} \ {plainListener.status}
                 => secureListener' = secureListener /\ protocol' = "Production"]_vars

\* Both listeners served, the HTTPS listener has failed since and the HTTP
\* listener serves on.
C14_Witness ==
    /\ protocol = "Production"
    /\ secureListener = Listener("killed", ":443")
    /\ plainListener = Listener("listening", ":80")

\* C15: the internal log file is opened by trying the configured file first
\* and, only when that fails, the one file "internal.log"; there is no third
\* file. With "internal.log" open the startup goes on with it; when both fail
\* the process ends as a fatal error before the REPL is started and serve is
\* entered.
C15_InternalLogOneFallback ==
    /\ logTargets \in {<<>>, <<"internalLogFilename">>,
                        <<"internalLogFilename", "internal.log">>}
    /\ Len(logTargets) = 1 => files["internalLog"] # "none" /\ files["fallbackLog"] = "none"
    /\ Len(logTargets) = 2 => files["internalLog"] = "none"
    /\ Len(logTargets) = 2 /\ files["fallbackLog"] # "none" => exitCause # "internalLog"
    /\ Len(logTargets) = 2 /\ files["fallbackLog"] = "none"
          => /\ pc = "exited"
             /\ exitKind = "fatal"
             /\ exitCause \in {"internalLog", "heapProfile"}
             /\ ~replRunning
             /\ "drain" \notin Range(deferred)

\* Neither file could be opened and the process ended as a fatal error.
C15_Witness ==
    /\ logTargets = <<"internalLogFilename", "internal.log">>
    /\ files["fallbackLog"] = "none"
    /\ exitKind = "fatal"
    /\ exitCause = "internalLog"

\* C16: the configuration files are run in the order of the list, one after
\* the other: the k-th file run is the k-th of the list the loop ranges over,
\* each has put its Lua state back before the next is run (so one Lua state
\* serves them all), and the Lua server file or the registration of the
\* handlers comes only after the last of them.
C16_SourcesInListOrder ==
    /\ Len(runs) <= Len(rangeOver)
    /\ \A k \in 1..Len(runs) : runs[k].file = rangeOver[k]
    /\ pc = "config" => Len(runs) = idx - 1
    /\ pc \in {"config", "luaServer"} => created <= 1 /\ Len(saved) = created
    /\ serverScriptRan \/ serverScriptFailed \/ registerCount > 0
          => Len(runs) = Len(rangeOver)

\* Two configuration files or more were run and the handlers were registered
\* after them.
C16_Witness ==
    /\ Len(runs) >= 2
    /\ \A k \in 1..Len(runs) : runs[k].result # "unreadable"
    /\ registerCount = 1

\* C17: when the server directory is an archive, the step that registers the
\* extracted configuration files and drops those of the current directory ends
\* without a slice index out of range, leaves no filename without a path
\* separator in serverConfigurationFilenames and keeps every configuration
\* file found in the extracted directory.
C17_ZipFilterSafeAndComplete ==
    zipDraw.extracted =>
       /\ exitKind # "panic"
       /\ pc = "perm" =>
              /\ \A k \in 1..Len(serverConfigurationFilenames) :
                     HasSeparator(serverConfigurationFilenames[k], zipDraw.withSeparator)
              /\ \A i \in zipDraw.inZip :
                     ConfName(i, TRUE) \in Range(serverConfigurationFilenames)

\* C18: when main returns, the shutdown functions are called first (the one
\* that stops the CPU profile among them), the internal log file is closed
\* only after them and the temporary directory is removed last; it is removed
\* only once the server has returned.
C18_ReleaseOrder ==
    /\ tempDir = "removed" => exitKind \in {"return", "panic"}
    /\ exitKind = "return" =>
          /\ tempDir = "removed"
          /\ released # <<>>
          /\ \A i \in 1..Len(released) :
                 released[i] = "removeTemp" <=> i = Len(released)
          /\ \A i, j \in 1..Len(released) :
                 /\ released[i] \in Range(shutdownFunctions)
                 /\ released[j] = "closeInternalLog"
                 => i < j
          /\ serverDir # "README.md" =>
                 released = shutdownFunctions \o <<"closeInternalLog", "removeTemp">>

\* main returned from serve: the CPU profile was stopped, then the internal
\* log file was closed, then the temporary directory was removed.
C18_Witness ==
    /\ exitKind = "return"
    /\ "stopCPU" \in Range(released)
    /\ files["internalLog"] = "closed"
    /\ tempDir = "removed"

\* C19: the pool's Shutdown is registered as a shutdown function as soon as
\* the pool exists and before any Lua state is taken from it, so whenever the
\* shutdown functions are called after a Lua state was taken, the pool's
\* Shutdown is among the functions called.
C19_PoolShutdownInEveryDrain ==
    /\ poolState # "none" => "pool" \in Range(shutdownFunctions)
    /\ created > 0 => "pool" \in Range(shutdownFunctions)
    /\ created > 0 /\ ran # <<>> => "pool" \in Range(ran)

\* C20: an error of the Lua server file always ends the process as a fatal
\* error, with or without a permission backend; after it the handlers are
\* not registered, the internal log file is not opened, the REPL is not
\* started and serve is not entered.
C20_ServerScriptErrorAlwaysFatal ==
    serverScriptFailed =>
       /\ pc = "exited"
       /\ exitKind = "fatal"
       /\ exitCause \in {"luaServerError", "heapProfile"}
       /\ registerCount = 0
       /\ logTargets = <<>>
       /\ ~replRunning
       /\ "drain" \notin Range(deferred)

\* The Lua server file failed with no permission backend and the process
\* ended as a fatal error.
C20_Witness ==
    /\ serverScriptFailed
    /\ perm = "nil"
    /\ exitKind = "fatal"
    /\ exitCause = "luaServerError"

====
